---- MODULE Spec2Model ----
(***************************************************************************)
(* Session lifecycle of src/controllers/whatsappController.js: the         *)
(* sessions map, the sockets made by makeWASocket, the auto-disconnect     *)
(* timers, the two HTTP controllers (getQRCode, connect) and the           *)
(* connection.update handler, each cut at its await points.                *)
(*                                                                         *)
(* The collaborators are taken to succeed: useMultiFileAuthState and       *)
(* qrcode.toDataURL resolve, removeAllListeners and end do not throw.      *)
(* A socket emits qr updates while connecting, open once and close last;   *)
(* a socket made by connectToWhatsApp has no handler subscribed.           *)
(***************************************************************************)
EXTENDS Integers, Sequences, FiniteSets, TLC

\* Bound on the inputs of one run: every request and every library event
\* spends work (see Cost* below); continuations and timers are free.
MaxWork == 5

\* attempts < 20 in getQRCode's polling loop
MaxAttempts == 20

\* A phone number is a string, modelled as a sequence of characters; <<>> is
\* the missing / empty query parameter.
Digits == {"0", "1", "2", "3", "4", "5", "6", "7", "8", "9"}
Phones == {<<>>, <<"7">>, <<"7", "x">>}

\* null / undefined for a socket or a timer reference (ids start at 1)
Null == 0
\* null / undefined qr
NoQr == <<>>
\* DisconnectReason.loggedOut and another close reason, as status codes
LoggedOut == "401"
ConnectionLost == "428"
Undefined == "undefined"
Reasons == {LoggedOut, ConnectionLost}

VARIABLES
    sessions,     \* the Map: phone -> session object
    socks,        \* every socket makeWASocket returned, in creation order,
                  \* with what it has emitted (conn, reason, qrs)
    timers,       \* every timer setTimeout returned, in creation order
    authFolders,  \* phones whose auth folder exists on disk
    calls,        \* HTTP requests: position, poll counter, response
    gens,         \* phone -> generateQR calls started by a close event and
                  \*          awaiting useMultiFileAuthState
    handlers,     \* connection.update handlers awaiting qrcode.toDataURL
    work          \* inputs spent so far

vars == <<sessions, socks, timers, authFolders, calls, gens, handlers, work>>

----------------------------------------------------------------------------
\* /^[0-9]+$/.test(phoneNumber), with the !phoneNumber guard
ValidPhone(phoneNumber) ==
    /\ phoneNumber # <<>>
    /\ \A i \in 1..Len(phoneNumber) : phoneNumber[i] \in Digits

\* getAuthPath without its format check
GetAuthPathNeverThrows(phoneNumber) == FALSE

\* getAuthPath returns a path or throws
GetAuthPathThrows(phoneNumber) == ~ValidPhone(phoneNumber)

\* one session object for all phones in place of the Map keyed by phone
PutAlone(map, key, value) == [k \in {key} |-> value]

\* sessions.set(key, value)
Put(map, key, value) ==
    [k \in (DOMAIN map) \cup {key} |-> IF k = key THEN value ELSE map[k]]

\* an object with none of the session fields set ({} or undefined spread)
EmptySession ==
    [sock |-> Null, qr |-> NoQr, isConnected |-> FALSE,
     isManualDisconnect |-> FALSE, disconnectTimer |-> Null]

\* { ...sessions.get(key) }
Spread(map, key) == IF key \in DOMAIN map THEN map[key] ELSE EmptySession

\* qrcode.toDataURL(currentQr)
ToDataURL(currentQr) == <<"data:image/png;base64", currentQr>>

\* clearTimeout(id)
ClearTimeout(tm, id) ==
    IF id \in DOMAIN tm /\ tm[id].state = "armed"
    THEN [tm EXCEPT ![id].state = "cleared"]
    ELSE tm

\* the state the helpers below transform
World ==
    [sessions |-> sessions, socks |-> socks, timers |-> timers,
     authFolders |-> authFolders, gens |-> gens]

Commit(W) ==
    /\ sessions' = W.sessions
    /\ socks' = W.socks
    /\ timers' = W.timers
    /\ authFolders' = W.authFolders
    /\ gens' = W.gens

\* safeEndSocket(phoneNumber)
SafeEndSocket(W, phoneNumber) ==
    LET session == Spread(W.sessions, phoneNumber) IN
    IF phoneNumber \in DOMAIN W.sessions /\ session.sock # Null
    THEN [W EXCEPT
            !.socks[session.sock].listeners = FALSE,
            !.socks[session.sock].ends = @ + 1,
            !.socks[session.sock].conn = "close",
            !.sessions = Put(@, phoneNumber,
                             [session EXCEPT !.sock = Null,
                                             !.isConnected = FALSE])]
    ELSE W

\* makeWASocket(...): a new socket; only generateQR subscribes handlers
MakeWASocket(W, phoneNumber, by) ==
    [W EXCEPT !.socks = Append(@,
        [phone |-> phoneNumber, by |-> by, listeners |-> (by = "generateQR"),
         ends |-> 0, conn |-> "connecting", reason |-> Undefined,
         qrs |-> 0])]

\* generateQR up to its await, once getAuthPath has returned: existsSync /
\* mkdirSync
GenerateQRBegin(W, phoneNumber) ==
    [W EXCEPT !.authFolders = @ \cup {phoneNumber}]

\* generateQR after await useMultiFileAuthState
GenerateQRFinish(W, phoneNumber) ==
    LET W1 == SafeEndSocket(W, phoneNumber)
        W2 == MakeWASocket(W1, phoneNumber, "generateQR")
        sock == Len(W2.socks)
    IN  [W2 EXCEPT !.sessions = Put(@, phoneNumber,
            [sock |-> sock, qr |-> NoQr, isConnected |-> FALSE,
             isManualDisconnect |-> FALSE, disconnectTimer |-> Null])]

\* (x instanceof Boom) is a boolean, and a boolean has no output property
InstanceofBoom(error) == error \in Reasons
OutputStatusCode(b) == IF b \in BOOLEAN THEN Undefined ELSE b

\* shouldReconnect with the negation of isManualDisconnect dropped
ShouldReconnectNegationDropped(session, lastDisconnect) ==
    /\ session.isManualDisconnect
    /\ OutputStatusCode(InstanceofBoom(lastDisconnect)) # LoggedOut

\* const shouldReconnect = !session.isManualDisconnect && (...) !== loggedOut
ShouldReconnect(session, lastDisconnect) ==
    /\ ~session.isManualDisconnect
    /\ OutputStatusCode(InstanceofBoom(lastDisconnect)) # LoggedOut

\* if (connection === 'close') { ... }
CloseBranch(W, phoneNumber, session, update) ==
    LET W1 == [W EXCEPT
                 !.timers = ClearTimeout(@, session.disconnectTimer),
                 !.sessions = Put(@, phoneNumber,
                                  [session EXCEPT !.isConnected = FALSE,
                                                  !.disconnectTimer = Null])]
    IN  IF ShouldReconnect(session, update.reason)
           /\ ~GetAuthPathThrows(phoneNumber)
        THEN [GenerateQRBegin(W1, phoneNumber)
                EXCEPT !.gens[phoneNumber] = @ + 1]
        ELSE W1

\* if (connection === 'open') { ... }
OpenBranch(W, phoneNumber, session, update) ==
    LET tm == Append(W.timers,
                     [phone |-> phoneNumber, sock |-> update.sock,
                      state |-> "armed"])
    IN  [W EXCEPT
           !.timers = tm,
           !.sessions = Put(@, phoneNumber,
                            [session EXCEPT !.isConnected = TRUE,
                                            !.isManualDisconnect = FALSE,
                                            !.disconnectTimer = Len(tm)])]

\* the handler's two connection branches, run on the session it read first
ConnectionBranches(W, phoneNumber, session, update) ==
    LET W1 == IF update.connection = "close"
              THEN CloseBranch(W, phoneNumber, session, update) ELSE W
    IN  IF update.connection = "open"
        THEN OpenBranch(W1, phoneNumber, session, update) ELSE W1

----------------------------------------------------------------------------
Init ==
    /\ sessions = <<>>
    /\ socks = <<>>
    /\ timers = <<>>
    /\ authFolders \in SUBSET {p \in Phones : ValidPhone(p)}
    /\ calls = <<>>
    /\ gens = [p \in Phones |-> 0]
    /\ handlers = {}
    /\ work = 0

\* what an input spends: a getQRCode request weighs two, a connect request
\* or a library event one
Cost(input) == IF input = "getQRCode" THEN 2 ELSE 1

Spend(input) ==
    /\ work + Cost(input) <= MaxWork
    /\ work' = work + Cost(input)

Response(op, phone, status, message, qr) ==
    [op |-> op, phone |-> phone, pc |-> "done", attempts |-> 0,
     status |-> status, message |-> message, qr |-> qr]

Pending(op, phone, pc, attempts) ==
    [op |-> op, phone |-> phone, pc |-> pc, attempts |-> attempts,
     status |-> 0, message |-> "", qr |-> NoQr]

\* getQRCode up to await generateQR(phone) reaching useMultiFileAuthState
GetQRCode(phone) ==
    /\ Spend("getQRCode")
    /\ UNCHANGED handlers
    /\ IF phone = <<>>
       THEN /\ calls' = Append(calls, Response("getQRCode", phone, 400,
                          "Phone number is required as query parameter", NoQr))
            /\ Commit(World)
       ELSE LET W == [World EXCEPT !.sessions = Put(@, phone,
                        [Spread(sessions, phone) EXCEPT
                           !.qr = NoQr, !.isManualDisconnect = FALSE])]
            IN  IF GetAuthPathThrows(phone)
                THEN /\ calls' = Append(calls, Response("getQRCode", phone, 500,
                                   "Invalid phone number format", NoQr))
                     /\ Commit(W)
                ELSE /\ calls' = Append(calls,
                                        Pending("getQRCode", phone, "load", 0))
                     /\ Commit(GenerateQRBegin(W, phone))

\* the loop test with attempts <= 20 for attempts < 20
PollOrRespondOneMore(c, sess, attempts) ==
    IF Spread(sess, c.phone).qr = NoQr /\ attempts <= MaxAttempts
    THEN Pending("getQRCode", c.phone, "sleep", attempts)
    ELSE IF Spread(sess, c.phone).qr = NoQr
         THEN Response("getQRCode", c.phone, 408, "QR Code generation timeout", NoQr)
         ELSE Response("getQRCode", c.phone, 200, "", Spread(sess, c.phone).qr)

\* the loop test and what follows the loop, after `attempts` waits
PollOrRespond(c, sess, attempts) ==
    IF Spread(sess, c.phone).qr = NoQr /\ attempts < MaxAttempts
    THEN Pending("getQRCode", c.phone, "sleep", attempts)
    ELSE IF Spread(sess, c.phone).qr = NoQr
         THEN Response("getQRCode", c.phone, 408, "QR Code generation timeout", NoQr)
         ELSE Response("getQRCode", c.phone, 200, "", Spread(sess, c.phone).qr)

\* useMultiFileAuthState resolves: the rest of generateQR, then getQRCode's
\* first loop test
GetQRCodeLoaded(i) ==
    /\ calls[i].op = "getQRCode" /\ calls[i].pc = "load"
    /\ LET W == GenerateQRFinish(World, calls[i].phone) IN
        /\ Commit(W)
        /\ calls' = [calls EXCEPT ![i] = PollOrRespond(calls[i], W.sessions, 0)]
    /\ UNCHANGED <<handlers, work>>

\* the 500 ms wait ends: attempts++, loop test
PollWake(i) ==
    /\ calls[i].op = "getQRCode" /\ calls[i].pc = "sleep"
    /\ calls' = [calls EXCEPT
                   ![i] = PollOrRespond(calls[i], sessions, calls[i].attempts + 1)]
    /\ UNCHANGED <<sessions, socks, timers, authFolders, gens, handlers, work>>

\* connectToWhatsApp without the "Already connected" return
ConnectBeginNoConnectedCheck(phone) ==
    IF phone = <<>>
    THEN Response("connect", phone, 400,
                  "Phone number is required as query parameter", NoQr)
    ELSE IF ~ValidPhone(phone)
    THEN Response("connect", phone, 400, "Invalid phone number format", NoQr)
    ELSE IF phone \notin authFolders
    THEN Response("connect", phone, 400,
                  "No authentication data found. Please scan QR code first", NoQr)
    ELSE Pending("connect", phone, "load", 0)

\* connectToWhatsApp without the existsSync(AUTH_FOLDER) return
ConnectBeginNoAuthCheck(phone) ==
    IF phone = <<>>
    THEN Response("connect", phone, 400,
                  "Phone number is required as query parameter", NoQr)
    ELSE IF ~ValidPhone(phone)
    THEN Response("connect", phone, 400, "Invalid phone number format", NoQr)
    ELSE IF Spread(sessions, phone).isConnected
    THEN Response("connect", phone, 200, "Already connected to WhatsApp", NoQr)
    ELSE Pending("connect", phone, "load", 0)

\* connect and connectToWhatsApp up to await useMultiFileAuthState: the
\* response, or the call left waiting
ConnectBegin(phone) ==
    IF phone = <<>>
    THEN Response("connect", phone, 400,
                  "Phone number is required as query parameter", NoQr)
    ELSE IF ~ValidPhone(phone)
    THEN Response("connect", phone, 400, "Invalid phone number format", NoQr)
    ELSE IF Spread(sessions, phone).isConnected
    THEN Response("connect", phone, 200, "Already connected to WhatsApp", NoQr)
    ELSE IF phone \notin authFolders
    THEN Response("connect", phone, 400,
                  "No authentication data found. Please scan QR code first", NoQr)
    ELSE Pending("connect", phone, "load", 0)

Connect(phone) ==
    /\ Spend("connect")
    /\ calls' = Append(calls, ConnectBegin(phone))
    /\ UNCHANGED <<sessions, socks, timers, authFolders, gens, handlers>>

\* connectToWhatsApp after await useMultiFileAuthState
ConnectToWhatsAppFinish(W, phoneNumber) ==
    LET W1 == SafeEndSocket(W, phoneNumber)
        currentSession == Spread(W1.sessions, phoneNumber)
        W2 == [W1 EXCEPT !.timers = ClearTimeout(@, currentSession.disconnectTimer)]
        W3 == MakeWASocket(W2, phoneNumber, "connectToWhatsApp")
    IN  [W3 EXCEPT !.sessions = Put(@, phoneNumber,
            [currentSession EXCEPT !.sock = Len(W3.socks),
                                   !.isConnected = FALSE,
                                   !.isManualDisconnect = FALSE,
                                   !.disconnectTimer = Null])]

ConnectLoaded(i) ==
    /\ calls[i].op = "connect" /\ calls[i].pc = "load"
    /\ Commit(ConnectToWhatsAppFinish(World, calls[i].phone))
    /\ calls' = [calls EXCEPT ![i] = Response("connect", calls[i].phone, 200,
                                              "Connection process started", NoQr)]
    /\ UNCHANGED <<handlers, work>>

\* a generateQR started by a close event passes its await
ReconnectLoaded(phone) ==
    /\ gens[phone] > 0
    /\ Commit([GenerateQRFinish(World, phone) EXCEPT !.gens[phone] = @ - 1])
    /\ UNCHANGED <<calls, handlers, work>>

\* the updates a socket emits: a pairing challenge while connecting, open
\* once, close once and last
Updates(sock) ==
    LET s == socks[sock]
        u(connection, qr, reason) ==
            [sock |-> sock, connection |-> connection, qr |-> qr, reason |-> reason]
    IN  IF ~s.listeners \/ s.conn = "close" THEN {}
        ELSE {u("close", NoQr, r) : r \in Reasons}
             \cup (IF s.conn = "connecting"
                   THEN {u("none", <<"challenge", sock>>, Undefined),
                         u("open", NoQr, Undefined)}
                   ELSE {})

\* sock.ev.on('connection.update', async (update) => ...) up to its first
\* await, or to its end when the update carries no qr
ConnectionUpdate(sock, update) ==
    /\ update \in Updates(sock)
    /\ Spend("event")
    /\ LET phoneNumber == socks[sock].phone
           session == Spread(sessions, phoneNumber)
           W == [World EXCEPT
                   !.socks[sock].conn =
                       IF update.connection = "none" THEN @ ELSE update.connection,
                   !.socks[sock].reason = update.reason,
                   !.socks[sock].qrs = IF update.qr # NoQr THEN @ + 1 ELSE @]
       IN  IF update.qr # NoQr
           THEN /\ handlers' = handlers \cup
                      {[id |-> work, session |-> session, update |-> update]}
                /\ Commit(W)
           ELSE /\ Commit(ConnectionBranches(W, phoneNumber, session, update))
                /\ UNCHANGED handlers
    /\ UNCHANGED calls

\* qrcode.toDataURL resolves: the handler stores the image in the session it
\* read before the await, then runs its connection branches
QrEncoded(handler) ==
    /\ handler \in handlers
    /\ handlers' = handlers \ {handler}
    /\ LET phoneNumber == socks[handler.update.sock].phone
           W == [World EXCEPT !.sessions = Put(@, phoneNumber,
                    [handler.session EXCEPT !.qr = ToDataURL(handler.update.qr)])]
       IN  Commit(ConnectionBranches(W, phoneNumber, handler.session, handler.update))
    /\ UNCHANGED <<calls, work>>

\* the setTimeout callback of the open branch
TimerFires(timer) ==
    /\ timers[timer].state = "armed"
    /\ LET phoneNumber == timers[timer].phone
           W == [World EXCEPT
                   !.timers[timer].state = "fired",
                   !.sessions = Put(@, phoneNumber,
                        [Spread(sessions, phoneNumber) EXCEPT
                           !.isManualDisconnect = TRUE])]
       IN  Commit(SafeEndSocket(W, phoneNumber))
    /\ UNCHANGED <<calls, handlers, work>>

Next ==
    \/ \E phone \in Phones : GetQRCode(phone)
    \/ \E i \in DOMAIN calls : GetQRCodeLoaded(i)
    \/ \E i \in DOMAIN calls : PollWake(i)
    \/ \E phone \in Phones : Connect(phone)
    \/ \E i \in DOMAIN calls : ConnectLoaded(i)
    \/ \E phone \in Phones : ReconnectLoaded(phone)
    \/ \E sock \in DOMAIN socks : \E update \in Updates(sock) :
           ConnectionUpdate(sock, update)
    \/ \E handler \in handlers : QrEncoded(handler)
    \/ \E timer \in DOMAIN timers : TimerFires(timer)

Spec == Init /\ [][Next]_vars

----------------------------------------------------------------------------
\* Vocabulary of the properties

\* the sockets created for a phone, and the latest of them
HandlesOf(phone) == {h \in DOMAIN socks : socks[h].phone = phone}
Newest(phone) ==
    IF HandlesOf(phone) = {} THEN Null
    ELSE CHOOSE h \in HandlesOf(phone) : \A g \in HandlesOf(phone) : g <= h

\* created and not torn down (removeAllListeners + end)
Live(h) == socks[h].ends = 0

\* this step delivers a close event with this reason to the handler of sock
CloseHandled(sock, reason) ==
    /\ socks[sock].conn # "close"
    /\ socks'[sock].conn = "close"
    /\ socks'[sock].listeners
    /\ socks'[sock].reason = reason

\* this step creates a socket
SocketCreated == Len(socks') > Len(socks)

\* this step receives a request
RequestReceived == Len(calls') > Len(calls)
NewCall == calls'[Len(calls')]

\* C1: at most one connection handle that is created and not torn down exists
\* per phone number, in every reachable state.
C1_AtMostOneLiveHandle ==
    \A phone \in Phones : Cardinality({h \in HandlesOf(phone) : Live(h)}) <= 1

\* C2: handling a close event with the logged-out reason on the session's
\* current socket starts no reconnect and creates no socket.
C2_NoReconnectAfterLogout ==
    [][\A sock \in DOMAIN socks :
         (/\ CloseHandled(sock, LoggedOut)
          /\ Spread(sessions, socks[sock].phone).sock = sock)
         => /\ gens' = gens
            /\ ~SocketCreated]_vars

\* C3: a getQRCode poll that answers success returns the image of a challenge
\* of the phone's latest socket, never of one replaced before the answer.
C3_NoStaleImage ==
    [][\A i \in DOMAIN calls :
         (/\ calls[i].op = "getQRCode"
          /\ calls[i].pc # "done"
          /\ calls'[i].pc = "done"
          /\ calls'[i].status = 200)
         => calls'[i].qr = ToDataURL(<<"challenge", Newest(calls[i].phone)>>)]_vars

\* C4: a timer armed for a socket that was replaced before it fires changes
\* neither the newer socket nor isManualDisconnect.
C4_StaleTimerNoEffect ==
    [][\A t \in DOMAIN timers :
         LET phone == timers[t].phone IN
         (/\ timers[t].state = "armed"
          /\ timers'[t].state = "fired"
          /\ timers[t].sock # Newest(phone))
         => /\ socks'[Newest(phone)] = socks[Newest(phone)]
            /\ sessions'[phone].isManualDisconnect
                 = sessions[phone].isManualDisconnect]_vars

\* C5: when the timer armed by a socket's open event fires and that socket
\* was neither closed nor replaced meanwhile, the socket is torn down,
\* isManualDisconnect is true and the session is not connected.
C5_TimerTearsDownOpened ==
    [][\A t \in DOMAIN timers :
         LET phone == timers[t].phone
             h == timers[t].sock
         IN  (/\ timers[t].state = "armed"
              /\ timers'[t].state = "fired"
              /\ socks[h].conn = "open"
              /\ h = Newest(phone))
             => /\ socks'[h].ends = 1
                /\ sessions'[phone].isManualDisconnect
                /\ ~sessions'[phone].isConnected]_vars

\* C6: handling a close event with a reason other than logged-out while
\* isManualDisconnect is false starts a generateQR for the same phone; a
\* generateQR so started can always pass its await, and doing so creates a
\* socket for that phone and stores it in the session.
C6_ReconnectOnClose ==
    /\ [][\A sock \in DOMAIN socks : \A reason \in Reasons \ {LoggedOut} :
            (/\ CloseHandled(sock, reason)
             /\ ~Spread(sessions, socks[sock].phone).isManualDisconnect)
            => gens'[socks[sock].phone] = gens[socks[sock].phone] + 1]_vars
    /\ [][\A phone \in Phones :
            gens'[phone] < gens[phone]
            => /\ SocketCreated
               /\ socks'[Len(socks')].phone = phone
               /\ sessions'[phone].sock = Len(socks')]_vars
    /\ [](\A phone \in Phones :
            gens[phone] > 0 => ENABLED ReconnectLoaded(phone))

C6_Witness ==
    \E h \in DOMAIN socks : \E g \in DOMAIN socks :
        /\ socks[h].reason = ConnectionLost
        /\ socks[h].ends = 1
        /\ g > h
        /\ socks[g].phone = socks[h].phone
        /\ socks[g].by = "generateQR"
        /\ Len(calls) = 1

\* C7: while isManualDisconnect is true no reconnect creates a socket; only a
\* request (getQRCode or connect) does.
C7_NoReconnectWhileManual ==
    [][\A phone \in DOMAIN sessions :
         (sessions[phone].isManualDisconnect /\ SocketCreated)
         => gens'[phone] = gens[phone]]_vars

\* C8: a connect request for a connected session answers success and changes
\* nothing: no teardown, no socket, no timer cancelled or armed.
C8_ConnectWhenConnected ==
    [][(/\ RequestReceived
        /\ NewCall.op = "connect"
        /\ Spread(sessions, NewCall.phone).isConnected)
       => /\ NewCall.pc = "done"
          /\ NewCall.status = 200
          /\ UNCHANGED <<sessions, socks, timers, authFolders, gens>>]_vars

C8_Witness ==
    \E i \in DOMAIN calls :
        /\ calls[i].op = "connect"
        /\ calls[i].message = "Already connected to WhatsApp"
        /\ sessions[calls[i].phone].isConnected

\* C9: a request whose phone does not match ^[0-9]+$ is answered at once with
\* a failure naming the phone, and no collaborator is called: no auth folder
\* made or loaded, no socket created, none ended, no timer touched.
C9_InvalidPhoneRejected ==
    [][(RequestReceived /\ ~ValidPhone(NewCall.phone))
       => /\ NewCall.pc = "done"
          /\ NewCall.status \in {400, 500}
          /\ NewCall.message \in {"Invalid phone number format",
                                  "Phone number is required as query parameter"}
          /\ UNCHANGED <<socks, timers, authFolders, gens, handlers>>]_vars

C9_Witness ==
    /\ \E i \in DOMAIN calls :
          calls[i].op = "getQRCode" /\ calls[i].phone = <<"7", "x">>
    /\ \E i \in DOMAIN calls :
          calls[i].op = "connect" /\ calls[i].phone = <<"7", "x">>
    /\ socks = <<>>

\* C10: a connect request for a valid phone with no auth folder is answered
\* with the failure "No authentication data found...", creates no socket,
\* ends none and leaves the session entry as it is.
C10_ConnectWithoutAuth ==
    [][(/\ RequestReceived
        /\ NewCall.op = "connect"
        /\ ValidPhone(NewCall.phone)
        /\ NewCall.phone \notin authFolders)
       => /\ NewCall.pc = "done"
          /\ NewCall.status = 400
          /\ NewCall.message
               = "No authentication data found. Please scan QR code first"
          /\ UNCHANGED <<sessions, socks, timers, authFolders, gens>>]_vars

C10_Witness ==
    \E i \in DOMAIN calls :
        /\ calls[i].op = "connect"
        /\ calls[i].message
             = "No authentication data found. Please scan QR code first"
        /\ calls[i].phone \notin authFolders

\* C11: a polling getQRCode call is in at most its 20th wait and can always
\* end it; when a wait ends with no image in the session, the call waits
\* again if fewer than 20 waits are done and otherwise answers 408.
C11_PollTimesOut ==
    /\ [](\A i \in DOMAIN calls :
            calls[i].pc = "sleep"
            => calls[i].attempts < MaxAttempts /\ ENABLED PollWake(i))
    /\ [][\A i \in DOMAIN calls :
            (/\ calls[i].pc = "sleep"
             /\ calls'[i] # calls[i]
             /\ Spread(sessions, calls[i].phone).qr = NoQr)
            => IF calls[i].attempts + 1 < MaxAttempts
               THEN /\ calls'[i].pc = "sleep"
                    /\ calls'[i].attempts = calls[i].attempts + 1
               ELSE /\ calls'[i].pc = "done"
                    /\ calls'[i].status = 408]_vars

C11_Witness ==
    \E i \in DOMAIN calls :
        /\ calls[i].op = "getQRCode"
        /\ calls[i].pc = "done"
        /\ calls[i].status = 408
        /\ sessions[calls[i].phone].qr = NoQr

\* C12: a getQRCode call, the only one for its phone, whose own socket
\* emitted a pairing challenge that was rendered before the call's waits ran
\* out, answers success and not 408.
C12_ChallengeGivesImage ==
    [][\A i \in DOMAIN calls :
         LET phone == calls[i].phone
             made == {h \in HandlesOf(phone) : socks[h].by = "generateQR"}
             own == CHOOSE h \in made : \A g \in made : h <= g
         IN  (/\ calls[i].op = "getQRCode"
              /\ calls[i].pc = "sleep"
              /\ calls'[i].pc = "done"
              /\ \A j \in DOMAIN calls \ {i} :
                    ~(calls[j].op = "getQRCode" /\ calls[j].phone = phone)
              /\ socks[own].qrs > 0
              /\ \A hd \in handlers : hd.update.sock # own)
             => calls'[i].status = 200]_vars

\* C13: every socket stored in a session and not torn down has the
\* controller's connection.update and creds.update handlers subscribed,
\* whether generateQR or connectToWhatsApp created it.
C13_StoredSocketSubscribed ==
    \A p \in DOMAIN sessions :
        (sessions[p].sock # Null /\ Live(sessions[p].sock))
        => socks[sessions[p].sock].listeners

\* C14: a getQRCode request whose phone is present but does not match
\* ^[0-9]+$ is answered 400, and a getQRCode request is answered 500 only
\* when a collaborator or handler failed, never for its phone's format.
C14_MalformedPhoneIs400 ==
    \A i \in DOMAIN calls :
        (/\ calls[i].op = "getQRCode"
         /\ calls[i].pc = "done"
         /\ calls[i].phone # <<>>
         /\ ~ValidPhone(calls[i].phone))
        => calls[i].status = 400

\* C17: the sessions map has entries only for phones matching ^[0-9]+$: a
\* request with any other phone leaves the map as it is.
C17_OnlyValidPhonesInSessions ==
    \A p \in DOMAIN sessions : ValidPhone(p)

\* C15: when a connection.update handler resumes after qrcode.toDataURL and
\* stores the image, the session's sock, isConnected, isManualDisconnect and
\* disconnectTimer stay as they are at that moment; only qr changes.
C15_QrStoresOnlyImage ==
    [][\A h \in handlers :
          h \notin handlers'
          => LET p == socks[h.update.sock].phone
             IN  /\ sessions'[p].sock = sessions[p].sock
                 /\ sessions'[p].isConnected = sessions[p].isConnected
                 /\ sessions'[p].isManualDisconnect = sessions[p].isManualDisconnect
                 /\ sessions'[p].disconnectTimer = sessions[p].disconnectTimer]_vars

\* C18: teardown is attempted exactly once on every socket that has been
\* replaced by a later socket of its phone, and never twice on any socket.
C18_TeardownExactlyOnce ==
    \A h \in DOMAIN socks :
        /\ socks[h].ends <= 1
        /\ h # Newest(socks[h].phone) => socks[h].ends = 1

\* C19: per phone at most one timer is armed, and an armed timer is the one
\* the session's disconnectTimer refers to.
C19_OneArmedTimerReferenced ==
    \A t \in DOMAIN timers :
        timers[t].state = "armed"
        => /\ \A u \in DOMAIN timers :
                (timers[u].state = "armed" /\ timers[u].phone = timers[t].phone)
                => u = t
           /\ timers[t].phone \in DOMAIN sessions
           /\ sessions[timers[t].phone].disconnectTimer = t

\* C20: a session with isConnected true holds a socket, and that socket has
\* not been torn down.
C20_ConnectedHasLiveSocket ==
    \A p \in DOMAIN sessions :
        sessions[p].isConnected
        => /\ sessions[p].sock # Null
           /\ Live(sessions[p].sock)

----------------------------------------------------------------------------
\* Two phones, both matching ^[0-9]+$: the same handlers, with requests drawn
\* for either phone

PhonesTwo == {<<"7">>, <<"8">>}

\* the inputs of a run with two phones weigh at most this much together
MaxWorkTwo == 4

InitTwo ==
    /\ sessions = <<>>
    /\ socks = <<>>
    /\ timers = <<>>
    /\ authFolders \in SUBSET PhonesTwo
    /\ calls = <<>>
    /\ gens = [p \in PhonesTwo |-> 0]
    /\ handlers = {}
    /\ work = 0

NextTwo ==
    \/ \E phone \in PhonesTwo : GetQRCode(phone) /\ work' <= MaxWorkTwo
    \/ \E i \in DOMAIN calls : GetQRCodeLoaded(i)
    \/ \E i \in DOMAIN calls : PollWake(i)
    \/ \E phone \in PhonesTwo : Connect(phone) /\ work' <= MaxWorkTwo
    \/ \E i \in DOMAIN calls : ConnectLoaded(i)
    \/ \E phone \in PhonesTwo : ReconnectLoaded(phone)
    \/ \E sock \in DOMAIN socks : \E update \in Updates(sock) :
           ConnectionUpdate(sock, update) /\ work' <= MaxWorkTwo
    \/ \E handler \in handlers : QrEncoded(handler)
    \/ \E timer \in DOMAIN timers : TimerFires(timer)

SpecTwo == InitTwo /\ [][NextTwo]_vars

\* all that is kept for one phone: its session entry, its sockets, its
\* timers, its pending reconnects and its auth folder
StateOf(phone) ==
    [session |-> IF phone \in DOMAIN sessions THEN <<sessions[phone]>> ELSE <<>>,
     socks |-> [h \in HandlesOf(phone) |-> socks[h]],
     timers |-> [t \in {u \in DOMAIN timers : timers[u].phone = phone} |-> timers[t]],
     gens |-> gens[phone],
     authFolder |-> phone \in authFolders]

\* this step is a request for the phone, the continuation of one, an update
\* of one of its sockets, the completion of one of its handlers, one of its
\* reconnects resuming or one of its timers firing
StepFor(phone) ==
    \/ RequestReceived /\ NewCall.phone = phone
    \/ \E i \in DOMAIN calls : calls[i].phone = phone /\ calls'[i] # calls[i]
    \/ \E sock \in HandlesOf(phone) :
          /\ socks[sock].listeners
          /\ \/ socks'[sock].conn # socks[sock].conn
             \/ socks'[sock].qrs # socks[sock].qrs
    \/ \E h \in handlers \ handlers' : socks[h.update.sock].phone = phone
    \/ gens'[phone] < gens[phone]
    \/ \E t \in DOMAIN timers :
          /\ timers[t].phone = phone
          /\ timers[t].state = "armed"
          /\ timers'[t].state = "fired"

\* C16: sessions of distinct phones are independent: every step is for one
\* phone (a request, an event, a reconnect or a timer of it), and it leaves
\* the session entry, the sockets and the timers of every other phone as
\* they are.
C16_SessionsIndependent ==
    [][/\ \E phone \in PhonesTwo : StepFor(phone)
       /\ \A A \in PhonesTwo : \A B \in PhonesTwo \ {A} :
             StepFor(A) => StateOf(B)' = StateOf(B)]_vars

C16_Witness ==
    \E A \in PhonesTwo : \E B \in PhonesTwo \ {A} :
        /\ B \in DOMAIN sessions
        /\ sessions[B].isConnected
        /\ sessions[B].sock # Null
        /\ Live(sessions[B].sock)
        /\ sessions[B].disconnectTimer # Null
        /\ timers[sessions[B].disconnectTimer].state = "armed"
        /\ A \in DOMAIN sessions
        /\ sessions[A].sock # Null
        /\ Live(sessions[A].sock)
====
